---- MODULE Spec2Model ----
(***************************************************************************)
(* Circular "seen-before" buffer of package buff (thanhtranna/rabbitmq).   *)
(* The buffer code is the second half of src/buff/buff_test.go (lines      *)
(* 234-425); the first half (lines 1-232) is its test file, which drives   *)
(* two package-level buffers, bufferRecent and bufferOldest, side by side. *)
(*                                                                         *)
(* A Go []byte is a reference to an array.  A slice value is modelled as   *)
(* NilSlice or the address of an array; mem maps an address to the bytes   *)
(* the array holds.  Add stores the slice it is given (no copy), the       *)
(* Get* accessors copy into a fresh array.                                 *)
(***************************************************************************)
EXTENDS Integers, Sequences, FiniteSets, TLC

\* ---------------------------------------------------------------- bounds
MaxSize   == 2      \* buffer sizes 1..MaxSize
NumArrays == 3      \* byte arrays owned by the caller
MaxAdds   == 3      \* Add calls between two Resets
NumThreads == 2     \* goroutines of TestRace, one call each
MaxRaceSize == 2    \* buffer sizes 1..MaxRaceSize under TestRace

\* ------------------------------------------------------- program constants
Recent == 0
Oldest == 1

errNone == "nil"
errSize == "error: size of buff must be greater than 0"
errMode == "error: invalid search mode specified"

\* ------------------------------------------------------------ slices
NilSlice    == 0
CallerAddrs == 1..NumArrays
RetAddr     == NumArrays + 1
Addrs       == 1..(NumArrays + 1)
Slices      == {NilSlice} \cup CallerAddrs

\* what the caller's arrays hold at the start: array 1 is zero-length, an
\* even array a holds one byte, an odd one two bytes sharing the first byte
\* with array a-1.
InitBytes(a) ==
    IF a = 1 THEN << >>
    ELSE IF a % 2 = 0 THEN << a \div 2 >>
    ELSE << (a - 1) \div 2, a >>

NilBuff == [size |-> 0]

\* &sync.RWMutex{}: w is held by the writer that is waiting for or inside
\* its section, r counts the readers inside theirs.
RWMutex == [w |-> FALSE, r |-> 0]

VARIABLES
    buffers,    \* Mode -> Buff : bufferRecent and bufferOldest of the test file
    mem,        \* Addrs -> byte sequence : the arrays behind the slices
    ret,        \* what the last call returned
    hist,       \* the slices passed to Add since the last Reset, with the
                \* bytes they held at the call
    thr         \* goroutine -> where it is in its call, and its locals

vars == << buffers, mem, ret, hist, thr >>

bufferRecent == buffers[Recent]
bufferOldest == buffers[Oldest]

\* len(s), and the bytes of s
Bytes(m, s) == IF s = NilSlice THEN << >> ELSE m[s]

\* bytes.Equal: same length and the same byte at every index; a nil slice
\* has length 0.
BytesEqual(x, y) ==
    /\ Len(x) = Len(y)
    /\ \A i \in 1..Len(x) : x[i] = y[i]

\* ------------------------------------------------------------ Init()
\* Init that clamps a size below one to one instead of failing
InitBuffClamp(size, mode) ==
    LET n == IF size < 1 THEN 1 ELSE size
    IN  IF mode # 0 /\ mode # 1 THEN [b |-> NilBuff, err |-> errMode]
        ELSE [b   |-> [size |-> n, mode |-> mode, ptr |-> 0,
                       data |-> [i \in 0..(n - 1) |-> NilSlice],
                       mutex |-> RWMutex],
              err |-> errNone]

InitBuff(size, mode) ==
    IF size < 1 THEN [b |-> NilBuff, err |-> errSize]
    ELSE IF mode # 0 /\ mode # 1 THEN [b |-> NilBuff, err |-> errMode]
    ELSE [b   |-> [size |-> size, mode |-> mode, ptr |-> 0,
                   data |-> [i \in 0..(size - 1) |-> NilSlice],
                   mutex |-> RWMutex],
          err |-> errNone]

\* ------------------------------------------------------------ Add()
\* Add that leaves the pointer on the last slot instead of wrapping to 0
AddNoWrap(b, data) ==
    LET d == [b.data EXCEPT ![b.ptr] = data]
        p == b.ptr + 1
    IN  [b EXCEPT !.data = d, !.ptr = IF p = b.size THEN b.ptr ELSE p]

\* Add that moves the pointer first and writes the slot it then points to
AddAfterInc(b, data) ==
    LET p == IF b.ptr + 1 = b.size THEN 0 ELSE b.ptr + 1
    IN  [b EXCEPT !.data = [b.data EXCEPT ![p] = data], !.ptr = p]

Add(b, data) ==
    LET d == [b.data EXCEPT ![b.ptr] = data]
        p == b.ptr + 1
    IN  [b EXCEPT !.data = d, !.ptr = IF p = b.size THEN 0 ELSE p]

\* ------------------------------------------------------------ Reset()
\* Reset that empties the slots and leaves the pointer where it is
ResetKeepPtr(b) ==
    [b EXCEPT !.data = [i \in 0..(b.size - 1) |-> NilSlice]]

Reset(b) ==
    [b EXCEPT !.data = [i \in 0..(b.size - 1) |-> NilSlice], !.ptr = 0]

\* ------------------------------------------------------------ Test()
\* one loop of testRecent: i runs from hi down to lo, the scan stops at the
\* first slot whose bytes equal the key.  seen lists the slots compared.
RECURSIVE scanLeft(_, _, _, _, _)
scanLeft(b, m, key, i, lo) ==
    IF i < lo THEN [hit |-> FALSE, seen |-> << >>]
    ELSE IF BytesEqual(Bytes(m, key), Bytes(m, b.data[i]))
         THEN [hit |-> TRUE, seen |-> << i >>]
         ELSE LET r == scanLeft(b, m, key, i - 1, lo)
              IN  [hit |-> r.hit, seen |-> << i >> \o r.seen]

\* one loop of testOldest: i runs from lo up to hi.
RECURSIVE scanRight(_, _, _, _, _)
scanRight(b, m, key, i, hi) ==
    IF i > hi THEN [hit |-> FALSE, seen |-> << >>]
    ELSE IF BytesEqual(Bytes(m, key), Bytes(m, b.data[i]))
         THEN [hit |-> TRUE, seen |-> << i >>]
         ELSE LET r == scanRight(b, m, key, i + 1, hi)
              IN  [hit |-> r.hit, seen |-> << i >> \o r.seen]

\* testRecent whose second loop runs from ptr up to the last slot
testRecentScanUp(b, m, key) ==
    LET first == scanLeft(b, m, key, b.ptr - 1, 0)
    IN  IF first.hit THEN first
        ELSE LET second == scanRight(b, m, key, b.ptr, b.size - 1)
             IN  [hit |-> second.hit, seen |-> first.seen \o second.seen]

testRecentScan(b, m, key) ==
    LET first == scanLeft(b, m, key, b.ptr - 1, 0)
    IN  IF first.hit THEN first
        ELSE LET second == scanLeft(b, m, key, b.size - 1, b.ptr)
             IN  [hit |-> second.hit, seen |-> first.seen \o second.seen]

\* testOldest without its second loop (slots 0..ptr-1 are never compared)
testOldestScanNoWrap(b, m, key) ==
    scanRight(b, m, key, b.ptr, b.size - 1)

testOldestScan(b, m, key) ==
    LET first == scanRight(b, m, key, b.ptr, b.size - 1)
    IN  IF first.hit THEN first
        ELSE LET second == scanRight(b, m, key, 0, b.ptr - 1)
             IN  [hit |-> second.hit, seen |-> first.seen \o second.seen]

testRecent(b, m, key) == testRecentScan(b, m, key).hit

testOldest(b, m, key) == testOldestScan(b, m, key).hit

Test(b, m, key) ==
    IF b.mode = Oldest THEN testOldest(b, m, key) ELSE testRecent(b, m, key)

\* ------------------------------------------------ GetRecent(), GetOldest()
\* buff = make([]byte, len(data)); copy(buff, data); return buff
\* the fresh array is RetAddr; a nil data has length 0, so the copy of a nil
\* slot is a zero-length slice that is not nil.
\* a Get that returns the slot's own slice instead of a copy
copyOutShared(m, data) == [val |-> data, mem |-> m]

copyOut(m, data) ==
    [val |-> RetAddr, mem |-> [m EXCEPT ![RetAddr] = Bytes(m, data)]]

\* GetRecent that reads slot 0 instead of the last slot when ptr is 0
GetRecentNoWrap(b, m) ==
    IF b.ptr = 0
    THEN LET data == b.data[0]
         IN  IF data = NilSlice THEN [val |-> NilSlice, mem |-> m]
             ELSE copyOut(m, data)
    ELSE copyOut(m, b.data[b.ptr - 1])

GetRecent(b, m) ==
    IF b.ptr = 0
    THEN LET data == b.data[b.size - 1]
         IN  IF data = NilSlice THEN [val |-> NilSlice, mem |-> m]
             ELSE copyOut(m, data)
    ELSE copyOut(m, b.data[b.ptr - 1])

\* index of the first slot that is not nil among lo..hi, -1 when none
RECURSIVE firstNonNil(_, _, _)
firstNonNil(b, i, hi) ==
    IF i > hi THEN -1
    ELSE IF b.data[i] # NilSlice THEN i
    ELSE firstNonNil(b, i + 1, hi)

\* GetOldest that scans from slot 0 instead of from ptr
GetOldestFromStart(b, m) ==
    LET first == firstNonNil(b, 0, b.size - 1)
    IN  IF first # -1 THEN copyOut(m, b.data[first])
        ELSE [val |-> NilSlice, mem |-> m]

GetOldest(b, m) ==
    LET first == firstNonNil(b, b.ptr, b.size - 1)
    IN  IF first # -1 THEN copyOut(m, b.data[first])
        ELSE LET second == firstNonNil(b, 0, b.ptr - 1)
             IN  IF second # -1 THEN copyOut(m, b.data[second])
                 ELSE [val |-> NilSlice, mem |-> m]

\* ------------------------------------------------------------ the calls
Modes == {Recent, Oldest}

Threads == 1..NumThreads

\* a goroutine that has not started, and one that has returned
Idle == [pc |-> "idle"]

Done == [pc |-> "done"]

Init ==
    /\ \E size \in 1..MaxSize :
          buffers = [md \in Modes |-> InitBuff(size, md).b]
    /\ mem = [a \in Addrs |-> IF a = RetAddr THEN << >> ELSE InitBytes(a)]
    /\ ret = [op |-> "none"]
    /\ hist = << >>
    /\ thr = [t \in Threads |-> Idle]

\* bufferRecent.Add(data); bufferOldest.Add(data)
CallAdd(data) ==
    /\ Len(hist) < MaxAdds
    /\ buffers' = [md \in Modes |-> Add(buffers[md], data)]
    /\ hist' = Append(hist, [s |-> data, bytes |-> Bytes(mem, data)])
    /\ ret' = [op |-> "Add"]
    /\ UNCHANGED << mem, thr >>

\* bufferRecent.Reset(); bufferOldest.Reset()
CallReset ==
    /\ buffers' = [md \in Modes |-> Reset(buffers[md])]
    /\ hist' = << >>
    /\ ret' = [op |-> "Reset", prev |-> hist]
    /\ UNCHANGED << mem, thr >>

\* the caller keeps the array a Get call returned until its next call that
\* returns a value; after that nothing refers to the array
dropped(m) == [m EXCEPT ![RetAddr] = << >>]

CallTest(md, key) ==
    /\ ret' = [op |-> "Test", mode |-> md, key |-> key,
               val |-> Test(buffers[md], mem, key)]
    /\ mem' = dropped(mem)
    /\ UNCHANGED << buffers, hist, thr >>

CallGetRecent(md) ==
    LET r == GetRecent(buffers[md], mem)
    IN  /\ ret' = [op |-> "GetRecent", mode |-> md, val |-> r.val]
        /\ mem' = r.mem
        /\ UNCHANGED << buffers, hist, thr >>

CallGetOldest(md) ==
    LET r == GetOldest(buffers[md], mem)
    IN  /\ ret' = [op |-> "GetOldest", mode |-> md, val |-> r.val]
        /\ mem' = r.mem
        /\ UNCHANGED << buffers, hist, thr >>

\* the sizes TestBadParameters expects Init to refuse
BadSizes == {0, -1}

\* _, err := Init(size, mode)
CallInit(size, mode) ==
    /\ ret' = [op |-> "Init", size |-> size, mode |-> mode,
               val |-> InitBuff(size, mode)]
    /\ mem' = dropped(mem)
    /\ UNCHANGED << buffers, hist, thr >>

Next ==
    \/ \E data \in Slices : CallAdd(data)
    \/ CallReset
    \/ \E md \in Modes, key \in Slices : CallTest(md, key)
    \/ \E md \in Modes : CallGetRecent(md)
    \/ \E md \in Modes : CallGetOldest(md)
    \/ \E size \in BadSizes \cup {1, 2}, mode \in Modes \cup {2} :
          CallInit(size, mode)

Spec == Init /\ [][Next]_vars

\* ====================================================================
\* The caller writes into the arrays it holds (TestOverwrite)
\* ====================================================================
Gets == {"GetRecent", "GetOldest"}

\* intToByte(buff, i) on an array the caller holds: one of its own, which it
\* may have passed to Add before, or the one the last Get call returned.
\* The write puts a byte that no array holds at the start into a[0]; got
\* tells whether a is what the last Get call returned, old what a held.
CallerWrite(a) ==
    /\ a \in CallerAddrs \/ (ret.op \in Gets /\ ret.val = a)
    /\ Len(mem[a]) > 0
    /\ mem[a][1] # 0
    /\ mem' = [mem EXCEPT ![a][1] = 0]
    /\ ret' = [op |-> "Write", addr |-> a, old |-> mem[a],
               got |-> (ret.op \in Gets /\ ret.val = a)]
    /\ UNCHANGED << buffers, hist, thr >>

NextAlias ==
    \/ \E data \in Slices : CallAdd(data)
    \/ CallReset
    \/ \E md \in Modes : CallGetRecent(md)
    \/ \E md \in Modes : CallGetOldest(md)
    \/ \E a \in Addrs : CallerWrite(a)

SpecAlias == Init /\ [][NextAlias]_vars

\* ====================================================================
\* Goroutines calling into one buffer (TestRace), one statement per step
\* ====================================================================
\* the buffer the goroutines share
bm == CHOOSE md \in DOMAIN buffers : TRUE

B == buffers[bm]

SetB(nb) == buffers' = [buffers EXCEPT ![bm] = nb]

Go(t, pc) == thr' = [thr EXCEPT ![t].pc = pc]

At(t, pcs) == thr[t].pc \in pcs

Ops == {"Add", "Reset", "Test", "GetRecent", "GetOldest"}

Writes == {"Add", "Reset"}

\* TestRace passes arrays that hold bytes to Add and Test; two of them here
RaceSlices == {NilSlice, 2, 3}

\* what a call returns: a bool, or a slice and the bytes of its array
NoResult == [val |-> NilSlice, bytes |-> << >>]

\* the buffer reached by the Add calls of h made one after the other on an
\* empty buffer
\* (x stands for the value of b, so that the buffer built so far is
\* evaluated once at each Add)
RECURSIVE Replay(_, _)
Replay(b, h) ==
    CHOOSE r \in { IF h = << >> THEN x
                   ELSE Replay(Add(x, Head(h).s), Tail(h)) : x \in {b} } : TRUE

\* the buffer as the writes that have unlocked leave it
Abs == Replay(Reset(B), hist)

\* what a read returns when it runs alone on buffer b
Answer(op, b, arg) ==
    CASE op = "Test" -> [val |-> Test(b, mem, arg), bytes |-> << >>]
      [] op = "GetRecent" ->
            LET r == GetRecent(b, mem)
            IN  [val |-> r.val, bytes |-> Bytes(r.mem, r.val)]
      [] op = "GetOldest" ->
            LET r == GetOldest(b, mem)
            IN  [val |-> r.val, bytes |-> Bytes(r.mem, r.val)]

\* the Add calls made before the goroutines start: n of them, passing
\* arrays 2 and 3 in turn.  The buffer starts empty (n = 0) or full, as the
\* tests that run before TestRace leave it (n = size).
Earlier(n) ==
    [i \in 1..n |-> LET a == IF i % 2 = 1 THEN 2 ELSE 3
                    IN  [s |-> a, bytes |-> InitBytes(a)]]

InitConc ==
    /\ \E size \in 1..MaxRaceSize, md \in Modes : \E n \in {0, size} :
          /\ hist = Earlier(n)
          /\ buffers = [m \in {md} |-> Replay(InitBuff(size, md).b, hist)]
    /\ mem = [a \in Addrs |-> IF a = RetAddr THEN << >> ELSE InitBytes(a)]
    /\ ret = [op |-> "none"]
    /\ thr = [t \in Threads |-> Idle]

\* go func() { buffer.<op>(arg) }(): goroutines start in the order of
\* their identities
Call(t, op, arg) ==
    /\ At(t, {"idle"})
    /\ \A u \in Threads : u < t => ~At(u, {"idle"})
    /\ thr' = [thr EXCEPT ![t] =
                 [pc |-> IF op \in Writes THEN "lock" ELSE "rlock",
                  op |-> op, arg |-> arg, i |-> 0,
                  res |-> NoResult, want |-> NoResult]]
    /\ UNCHANGED << buffers, mem, ret, hist >>

\* Lock that takes the writer side although another writer holds it
LockShared(t) ==
    /\ At(t, {"lock"})
    /\ SetB([B EXCEPT !.mutex.w = TRUE])
    /\ Go(t, "lockwait")
    /\ UNCHANGED << mem, ret, hist >>

\* b.mutex.Lock(), first half: take the writer side (one writer at a time;
\* from here on new readers wait)
Lock(t) ==
    /\ At(t, {"lock"})
    /\ ~B.mutex.w
    /\ SetB([B EXCEPT !.mutex.w = TRUE])
    /\ Go(t, "lockwait")
    /\ UNCHANGED << mem, ret, hist >>

\* Lock that does not wait for the readers inside to leave
LockNoWait(t) ==
    /\ At(t, {"lockwait"})
    /\ Go(t, IF thr[t].op = "Add" THEN "add_store" ELSE "reset_data")
    /\ UNCHANGED << buffers, mem, ret, hist >>

\* b.mutex.Lock(), second half: wait until the readers inside have left
LockWait(t) ==
    /\ At(t, {"lockwait"})
    /\ B.mutex.r = 0
    /\ Go(t, IF thr[t].op = "Add" THEN "add_store" ELSE "reset_data")
    /\ UNCHANGED << buffers, mem, ret, hist >>

\* b.data[b.ptr] = data
AddStore(t) ==
    /\ At(t, {"add_store"})
    /\ SetB([B EXCEPT !.data = [B.data EXCEPT ![B.ptr] = thr[t].arg]])
    /\ Go(t, "add_inc")
    /\ UNCHANGED << mem, ret, hist >>

\* b.ptr++
AddInc(t) ==
    /\ At(t, {"add_inc"})
    /\ SetB([B EXCEPT !.ptr = B.ptr + 1])
    /\ Go(t, "add_wrap")
    /\ UNCHANGED << mem, ret, hist >>

\* the wrap of Add with the test off by one: ptr is left at size
AddWrapLate(t) ==
    /\ At(t, {"add_wrap"})
    /\ SetB([B EXCEPT !.ptr = IF B.ptr > B.size THEN 0 ELSE B.ptr])
    /\ Go(t, "unlock")
    /\ UNCHANGED << mem, ret, hist >>

\* if b.ptr == b.size { b.ptr = 0 }
AddWrap(t) ==
    /\ At(t, {"add_wrap"})
    /\ SetB([B EXCEPT !.ptr = IF B.ptr = B.size THEN 0 ELSE B.ptr])
    /\ Go(t, "unlock")
    /\ UNCHANGED << mem, ret, hist >>

\* b.data = make([][]byte, b.size)
ResetData(t) ==
    /\ At(t, {"reset_data"})
    /\ SetB([B EXCEPT !.data = [i \in 0..(B.size - 1) |-> NilSlice]])
    /\ Go(t, "reset_ptr")
    /\ UNCHANGED << mem, ret, hist >>

\* b.ptr = 0
ResetPtr(t) ==
    /\ At(t, {"reset_ptr"})
    /\ SetB([B EXCEPT !.ptr = 0])
    /\ Go(t, "unlock")
    /\ UNCHANGED << mem, ret, hist >>

\* b.mutex.Unlock(): the write takes its place in the order of writes
Unlock(t) ==
    /\ At(t, {"unlock"})
    /\ SetB([B EXCEPT !.mutex.w = FALSE])
    /\ hist' = IF thr[t].op = "Add"
               THEN Append(hist, [s |-> thr[t].arg,
                                  bytes |-> Bytes(mem, thr[t].arg)])
               ELSE << >>
    /\ Go(t, "ret")
    /\ UNCHANGED << mem, ret >>


\* RLock that does not wait for the writer
RLockNoWait(t) ==
    /\ At(t, {"rlock"})
    /\ SetB([B EXCEPT !.mutex.r = @ + 1])
    /\ thr' = [thr EXCEPT
                 ![t].pc = CASE thr[t].op = "Test" ->
                                  IF B.mode = Oldest THEN "to_init"
                                                     ELSE "tr_init"
                             [] thr[t].op = "GetRecent" -> "gr_read"
                             [] thr[t].op = "GetOldest" -> "go_init",
                 ![t].want = Answer(thr[t].op, Abs, thr[t].arg)]
    /\ UNCHANGED << mem, ret, hist >>

\* b.mutex.RLock(): waits while a writer holds or is taking the lock
RLock(t) ==
    /\ At(t, {"rlock"})
    /\ ~B.mutex.w
    /\ SetB([B EXCEPT !.mutex.r = @ + 1])
    /\ thr' = [thr EXCEPT
                 ![t].pc = CASE thr[t].op = "Test" ->
                                  IF B.mode = Oldest THEN "to_init"
                                                     ELSE "tr_init"
                             [] thr[t].op = "GetRecent" -> "gr_read"
                             [] thr[t].op = "GetOldest" -> "go_init",
                 ![t].want = Answer(thr[t].op, Abs, thr[t].arg)]
    /\ UNCHANGED << mem, ret, hist >>

KeyMatches(t) == BytesEqual(Bytes(mem, thr[t].arg), Bytes(mem, B.data[thr[t].i]))

\* a return inside a scan loop that leaves without b.mutex.RUnlock()
FoundNoRUnlock(t, b) ==
    thr' = [thr EXCEPT ![t].res = [val |-> b, bytes |-> << >>],
                       ![t].pc = "ret"]

\* b.mutex.RUnlock(); return b  (every return of the scans unlocks first)
Found(t, b) ==
    thr' = [thr EXCEPT ![t].res = [val |-> b, bytes |-> << >>],
                       ![t].pc = "runlock"]

SetI(t, i, pc) == thr' = [thr EXCEPT ![t].i = i, ![t].pc = pc]

\* testRecent: for i := b.ptr - 1; ...
TestRecentInit(t) ==
    /\ At(t, {"tr_init"})
    /\ SetI(t, B.ptr - 1, "tr_loop1")
    /\ UNCHANGED << buffers, mem, ret, hist >>

\* testRecent: ...; i >= 0; i-- { if bytes.Equal(key, b.data[i]) {...} }
\* and, when the loop ends, for i := b.size - 1; ...
TestRecentLoop1(t) ==
    /\ At(t, {"tr_loop1"})
    /\ IF thr[t].i >= 0
       THEN IF KeyMatches(t) THEN Found(t, TRUE)
            ELSE SetI(t, thr[t].i - 1, "tr_loop1")
       ELSE SetI(t, B.size - 1, "tr_loop2")
    /\ UNCHANGED << buffers, mem, ret, hist >>

\* testRecent: ...; i >= b.ptr; i-- { if bytes.Equal(key, b.data[i]) {...} }
TestRecentLoop2(t) ==
    /\ At(t, {"tr_loop2"})
    /\ IF thr[t].i >= B.ptr
       THEN IF KeyMatches(t) THEN Found(t, TRUE)
            ELSE SetI(t, thr[t].i - 1, "tr_loop2")
       ELSE Found(t, FALSE)
    /\ UNCHANGED << buffers, mem, ret, hist >>

\* testOldest: for i := b.ptr; ...
TestOldestInit(t) ==
    /\ At(t, {"to_init"})
    /\ SetI(t, B.ptr, "to_loop1")
    /\ UNCHANGED << buffers, mem, ret, hist >>

\* testOldest: ...; i < b.size; i++ {...} and then for i := 0; ...
TestOldestLoop1(t) ==
    /\ At(t, {"to_loop1"})
    /\ IF thr[t].i < B.size
       THEN IF KeyMatches(t) THEN Found(t, TRUE)
            ELSE SetI(t, thr[t].i + 1, "to_loop1")
       ELSE SetI(t, 0, "to_loop2")
    /\ UNCHANGED << buffers, mem, ret, hist >>

\* testOldest: ...; i < b.ptr; i++ {...}
TestOldestLoop2(t) ==
    /\ At(t, {"to_loop2"})
    /\ IF thr[t].i < B.ptr
       THEN IF KeyMatches(t) THEN Found(t, TRUE)
            ELSE SetI(t, thr[t].i + 1, "to_loop2")
       ELSE Found(t, FALSE)
    /\ UNCHANGED << buffers, mem, ret, hist >>

\* the goroutine's own copy of a slot
Copied(t, data) ==
    thr' = [thr EXCEPT ![t].res = [val |-> RetAddr, bytes |-> Bytes(mem, data)],
                       ![t].pc = "runlock"]

\* GetRecent between RLock and RUnlock
GetRecentRead(t) ==
    /\ At(t, {"gr_read"})
    /\ LET r == GetRecent(B, mem)
       IN  thr' = [thr EXCEPT
                     ![t].res = [val |-> r.val, bytes |-> Bytes(r.mem, r.val)],
                     ![t].pc = "runlock"]
    /\ UNCHANGED << buffers, mem, ret, hist >>

\* GetOldest: for i := b.ptr; ...
GetOldestInit(t) ==
    /\ At(t, {"go_init"})
    /\ SetI(t, B.ptr, "go_loop1")
    /\ UNCHANGED << buffers, mem, ret, hist >>

\* GetOldest: ...; i < b.size; i++ { if b.data[i] != nil {...} }
GetOldestLoop1(t) ==
    /\ At(t, {"go_loop1"})
    /\ IF thr[t].i < B.size
       THEN IF B.data[thr[t].i] # NilSlice THEN Copied(t, B.data[thr[t].i])
            ELSE SetI(t, thr[t].i + 1, "go_loop1")
       ELSE SetI(t, 0, "go_loop2")
    /\ UNCHANGED << buffers, mem, ret, hist >>

\* GetOldest: for i := 0; i < b.ptr; i++ {...}; return nil
GetOldestLoop2(t) ==
    /\ At(t, {"go_loop2"})
    /\ IF thr[t].i < B.ptr
       THEN IF B.data[thr[t].i] # NilSlice THEN Copied(t, B.data[thr[t].i])
            ELSE SetI(t, thr[t].i + 1, "go_loop2")
       ELSE thr' = [thr EXCEPT ![t].pc = "runlock"]
    /\ UNCHANGED << buffers, mem, ret, hist >>

\* b.mutex.RUnlock()
RUnlock(t) ==
    /\ At(t, {"runlock"})
    /\ SetB([B EXCEPT !.mutex.r = @ - 1])
    /\ Go(t, "ret")
    /\ UNCHANGED << mem, ret, hist >>

\* return; TestRace drops what the call returned
Return(t) ==
    /\ At(t, {"ret"})
    /\ thr' = [thr EXCEPT ![t] = Done]
    /\ UNCHANGED << buffers, mem, ret, hist >>

NextConc ==
    \E t \in Threads :
       \/ \E op \in Ops, arg \in RaceSlices :
             /\ IF op \in {"Add", "Test"} THEN arg # NilSlice
                                          ELSE arg = NilSlice
             /\ Call(t, op, arg)
       \/ Lock(t)
       \/ LockWait(t)
       \/ AddStore(t)
       \/ AddInc(t)
       \/ AddWrap(t)
       \/ ResetData(t)
       \/ ResetPtr(t)
       \/ Unlock(t)
       \/ RLock(t)
       \/ TestRecentInit(t)
       \/ TestRecentLoop1(t)
       \/ TestRecentLoop2(t)
       \/ TestOldestInit(t)
       \/ TestOldestLoop1(t)
       \/ TestOldestLoop2(t)
       \/ GetRecentRead(t)
       \/ GetOldestInit(t)
       \/ GetOldestLoop1(t)
       \/ GetOldestLoop2(t)
       \/ RUnlock(t)
       \/ Return(t)

SpecConc == InitConc /\ [][NextConc]_vars

\* the statements of the call goroutine t has started
Running(t) ==
    \/ Lock(t)
    \/ LockWait(t)
    \/ AddStore(t)
    \/ AddInc(t)
    \/ AddWrap(t)
    \/ ResetData(t)
    \/ ResetPtr(t)
    \/ Unlock(t)
    \/ RLock(t)
    \/ TestRecentInit(t)
    \/ TestRecentLoop1(t)
    \/ TestRecentLoop2(t)
    \/ TestOldestInit(t)
    \/ TestOldestLoop1(t)
    \/ TestOldestLoop2(t)
    \/ GetRecentRead(t)
    \/ GetOldestInit(t)
    \/ GetOldestLoop1(t)
    \/ GetOldestLoop2(t)
    \/ RUnlock(t)
    \/ Return(t)

\* the goroutines whose calls are followed to their end: they pass the same
\* record (array 2) to Add and Test
NextLive ==
    \E t \in Threads :
       \/ \E op \in Ops :
             Call(t, op, IF op \in {"Add", "Test"} THEN 2 ELSE NilSlice)
       \/ Running(t)

\* The Go scheduler does not idle while a goroutine can run: as long as
\* some goroutine has a statement it can take, a statement is taken.  (A
\* call is a bounded number of statements, so nothing more is needed for
\* every call to end; no goroutine is assumed to be favoured.)
SpecConcFair ==
    /\ InitConc
    /\ [][NextLive]_vars
    /\ WF_vars(\E t \in Threads : Running(t))

\* ====================================================================
\* Properties of the calls made one after the other (Spec)
\* ====================================================================
Size == bufferRecent.size

\* the record inserted k insertions ago (k = 0 is the last one)
Ago(k) == hist[Len(hist) - k]

Distinct(x, y) == ~BytesEqual(x.bytes, y.bytes)

\* C1 - FIFO eviction on wrap-around: when the last Size+1 insertions since
\* the last Reset are r0 followed by Size records that are pairwise distinct
\* and distinct from r0, Test(r0) is false and Test(r) is true for each of
\* the Size later records, in both modes.
FifoEviction ==
    (/\ Len(hist) >= Size + 1
     /\ \A j, k \in 0..Size : j # k => Distinct(Ago(j), Ago(k)))
    => \A md \in Modes :
          /\ ~Test(buffers[md], mem, Ago(Size).s)
          /\ \A k \in 0..(Size - 1) : Test(buffers[md], mem, Ago(k).s)

FifoEvictionWitness ==
    /\ Size = 2
    /\ Len(hist) = 3
    /\ \A j, k \in 0..2 : j # k => Distinct(Ago(j), Ago(k))
    /\ ret.op = "Test"
    /\ ret.key = hist[1].s
    /\ ret.val = FALSE

\* C2 - membership has no false positives and no false negatives: Test(x)
\* is false for every record x not inserted since the last Reset, and true
\* for every record inserted among the last Size insertions.
MembershipExact ==
    /\ (ret.op = "Test" /\ ret.key # NilSlice /\ ret.val = TRUE)
       => \E i \in 1..Len(hist) : BytesEqual(hist[i].bytes, mem[ret.key])
    /\ \A md \in Modes, k \in 0..(Size - 1) :
          k < Len(hist) => Test(buffers[md], mem, Ago(k).s)

\* C3 - most-recent correctness: after one or more insertions ending in r,
\* GetRecent returns the bytes of r; on a fresh or just-reset buffer it
\* returns nil.
MostRecentCorrect ==
    \A md \in Modes :
       LET r == GetRecent(buffers[md], mem)
       IN  IF hist = << >>
           THEN r.val = NilSlice
           ELSE BytesEqual(Bytes(r.mem, r.val), Ago(0).bytes)

MostRecentWitness ==
    /\ Len(hist) > 1
    /\ bufferRecent.ptr = 0
    /\ Len(Ago(0).bytes) > 0
    /\ ret.op = "GetRecent"
    /\ ret.val = RetAddr
    /\ mem[RetAddr] = Ago(0).bytes

\* C4 - oldest correctness: GetOldest returns nil before any insertion;
\* when only non-nil records are inserted, it returns the first inserted
\* record after each of the first Size insertions and the second inserted
\* record right after insertion Size+1.
OldestCorrect ==
    \A md \in Modes :
       LET r == GetOldest(buffers[md], mem)
       IN  /\ hist = << >> => r.val = NilSlice
           /\ (\A i \in 1..Len(hist) : hist[i].s # NilSlice) =>
                 /\ Len(hist) \in 1..Size =>
                       /\ r.val # NilSlice
                       /\ BytesEqual(Bytes(r.mem, r.val), hist[1].bytes)
                 /\ Len(hist) = Size + 1 =>
                       /\ r.val # NilSlice
                       /\ BytesEqual(Bytes(r.mem, r.val), hist[2].bytes)

OldestWitness ==
    /\ Size >= 2
    /\ Len(hist) = Size + 1
    /\ \A i \in 1..Len(hist) : hist[i].s # NilSlice
    /\ Distinct(hist[1], hist[2])
    /\ Distinct(hist[2], hist[Size + 1])
    /\ ret.op = "GetOldest"
    /\ mem[RetAddr] = hist[2].bytes

\* C5 - Reset clears what is observable: right after Reset, Test(x) is
\* false for every record x inserted before it (zero-length ones included)
\* and GetRecent and GetOldest return nil.
ResetClears ==
    ret.op = "Reset" =>
       \A md \in Modes :
          /\ \A i \in 1..Len(ret.prev) :
                ret.prev[i].s # NilSlice
                => ~Test(buffers[md], mem, ret.prev[i].s)
          /\ GetRecent(buffers[md], mem).val = NilSlice
          /\ GetOldest(buffers[md], mem).val = NilSlice

\* C6 - a nil slot never matches: Test of a zero-length key is true only if
\* a zero-length record was inserted and still occupies a slot.
NilSlotNeverMatches ==
    (/\ ret.op = "Test"
     /\ ret.key # NilSlice
     /\ Len(mem[ret.key]) = 0
     /\ ret.val = TRUE)
    => \E k \in 0..(Size - 1) :
          /\ k < Len(hist)
          /\ Ago(k).s # NilSlice
          /\ Len(Ago(k).bytes) = 0

\* C7 - mode invariance: bufferRecent and bufferOldest, given the same Add
\* and Reset calls, hold the same slots and pointer, and Test gives the
\* same answer on both for every key.
ModeInvariance ==
    /\ bufferRecent.data = bufferOldest.data
    /\ bufferRecent.ptr = bufferOldest.ptr
    /\ \A key \in Slices :
          Test(bufferRecent, mem, key) = Test(bufferOldest, mem, key)

ModeInvarianceWitness ==
    /\ Size = 2
    /\ Len(hist) = 3
    /\ ret.op = "Test"
    /\ ret.mode = Oldest
    /\ ret.key = hist[2].s
    /\ ret.val = TRUE
    /\ ~Test(bufferRecent, mem, hist[1].s)

\* C8 - construction validation: Init fails with errSize when size < 1,
\* with errMode when size >= 1 and the mode is neither Recent nor Oldest,
\* and returns no buffer in both cases; otherwise it returns a buffer of
\* exactly the requested size and mode, every slot nil and ptr = 0.
ConstructionValidation ==
    ret.op = "Init" =>
       LET r == ret.val
       IN  /\ ret.size < 1 => r.err = errSize /\ r.b = NilBuff
           /\ (ret.size >= 1 /\ ret.mode \notin Modes)
                 => r.err = errMode /\ r.b = NilBuff
           /\ (ret.size >= 1 /\ ret.mode \in Modes) =>
                 /\ r.err = errNone
                 /\ r.b.size = ret.size
                 /\ r.b.mode = ret.mode
                 /\ r.b.ptr = 0
                 /\ DOMAIN r.b.data = 0..(ret.size - 1)
                 /\ \A i \in DOMAIN r.b.data : r.b.data[i] = NilSlice

ConstructionWitness ==
    /\ ret.op = "Init"
    /\ ret.size = 0
    /\ ret.mode = Oldest
    /\ ret.val.err = errSize

\* C15 - frame of the calls: Add changes no slot other than the one at the
\* pointer it found, and the pointer; Test, GetRecent and GetOldest change
\* neither a slot nor the pointer; no call changes size or mode, nor the
\* number of slots, nor the bytes of an array of the caller.
FrameOfCalls ==
    [][/\ \A md \in Modes :
             /\ buffers'[md].size = buffers[md].size
             /\ buffers'[md].mode = buffers[md].mode
             /\ DOMAIN buffers'[md].data = DOMAIN buffers[md].data
             /\ ret'.op = "Add" =>
                   \A i \in DOMAIN buffers[md].data :
                      i # buffers[md].ptr =>
                         buffers'[md].data[i] = buffers[md].data[i]
             /\ ret'.op \in {"Test", "GetRecent", "GetOldest"} =>
                   /\ buffers'[md].data = buffers[md].data
                   /\ buffers'[md].ptr = buffers[md].ptr
       /\ \A a \in CallerAddrs : mem'[a] = mem[a]]_vars

\* the third Add into two slots has replaced slot 0 and left slot 1
FrameOfCallsWitness ==
    /\ Size = 2
    /\ Len(hist) = 3
    /\ ret.op = "Add"
    /\ hist[1].s # hist[3].s
    /\ hist[2].s # hist[3].s
    /\ \A md \in Modes :
          /\ buffers[md].data[0] = hist[3].s
          /\ buffers[md].data[1] = hist[2].s
          /\ buffers[md].ptr = 1

\* the buffer Init returns for the size and mode of b
Fresh(b) == InitBuff(b.size, b.mode).b

\* C16 - Reset restores the initial state and is idempotent: Reset leaves
\* the buffer Init returns for the same size and mode, a second Reset
\* changes nothing, and the Add calls made since the last Reset have led to
\* the buffer they lead to from a new one (so every call answers as it
\* would there).
ResetRestoresInit ==
    \A md \in Modes :
       /\ Reset(buffers[md]) = Fresh(buffers[md])
       /\ Reset(Reset(buffers[md])) = Reset(buffers[md])
       /\ ret.op = "Reset" => buffers[md] = Fresh(buffers[md])
       /\ buffers[md] = Replay(Fresh(buffers[md]), hist)

\* a Reset of a two-slot buffer that had wrapped
ResetRestoresInitWitness ==
    /\ Size = 2
    /\ ret.op = "Reset"
    /\ Len(ret.prev) = 3
    /\ hist = << >>
    /\ \A md \in Modes :
          /\ buffers[md].ptr = 0
          /\ \A i \in 0..1 : buffers[md].data[i] = NilSlice

\* GetOldest returns the slot at the pointer, the record inserted Size
\* insertions ago, and every slot holds a slice
OldestIsAtPointer(md) ==
    LET b == buffers[md]
        r == GetOldest(b, mem)
    IN  /\ \A i \in DOMAIN b.data : b.data[i] # NilSlice
        /\ r.val # NilSlice
        /\ Bytes(r.mem, r.val) = Bytes(mem, b.data[b.ptr])
        /\ Bytes(r.mem, r.val) = Ago(Size - 1).bytes

\* C17 as stated - once Size or more Add calls were made since Init or the
\* last Reset, whatever was passed (zero-length slices and nil included),
\* every slot is non-nil and GetOldest returns the slot at the pointer.
OldestWhenFullAnyRecord ==
    Len(hist) >= Size => \A md \in Modes : OldestIsAtPointer(md)

\* C17 - once Size or more Add calls were made since Init or the last
\* Reset and none of the last Size of them passed nil (zero-length slices
\* allowed), every slot is non-nil and GetOldest returns the slot at the
\* pointer, the record inserted Size insertions ago.
OldestWhenFull ==
    (/\ Len(hist) >= Size
     /\ \A k \in 0..(Size - 1) : Ago(k).s # NilSlice)
    => \A md \in Modes : OldestIsAtPointer(md)

\* three Adds into two slots, the second of them a zero-length record:
\* GetOldest returns a zero-length slice that is not nil
OldestWhenFullWitness ==
    /\ Size = 2
    /\ Len(hist) = 3
    /\ \A k \in 0..2 : Ago(k).s # NilSlice
    /\ Len(hist[2].bytes) = 0
    /\ Len(hist[3].bytes) > 0
    /\ ret.op = "GetOldest"
    /\ ret.val = RetAddr
    /\ mem[RetAddr] = << >>

\* the indices hi, hi-1, ..., lo and lo, lo+1, ..., hi (none when hi < lo)
Down(hi, lo) == [k \in 1..(hi - lo + 1) |-> hi - k + 1]

Up(lo, hi) == [k \in 1..(hi - lo + 1) |-> lo + k - 1]

\* ptr-1, ..., 0, size-1, ..., ptr
RecentOrder(b) == Down(b.ptr - 1, 0) \o Down(b.size - 1, b.ptr)

\* ptr, ..., size-1, 0, ..., ptr-1
OldestOrder(b) == Up(b.ptr, b.size - 1) \o Up(0, b.ptr - 1)

SlotMatches(b, key, i) == BytesEqual(Bytes(mem, key), Bytes(mem, b.data[i]))

\* order lists every slot once; a scan without a match has compared the
\* slots in that order, all of them; a scan with a match has compared the
\* slots of order up to the first one that matches, and no further
ScansInOrder(b, key, scan, order) ==
    /\ Len(order) = b.size
    /\ \A i \in DOMAIN b.data : \E k \in 1..Len(order) : order[k] = i
    /\ Len(scan.seen) <= Len(order)
    /\ \A k \in 1..Len(scan.seen) : scan.seen[k] = order[k]
    /\ IF scan.hit
       THEN /\ scan.seen # << >>
            /\ \A k \in 1..Len(scan.seen) :
                  SlotMatches(b, key, scan.seen[k]) <=> k = Len(scan.seen)
       ELSE /\ Len(scan.seen) = Len(order)
            /\ \A i \in DOMAIN b.data : ~SlotMatches(b, key, i)

\* C18 - scan order and coverage of Test: for every pointer and key,
\* testRecent compares the slots ptr-1, ..., 0, size-1, ..., ptr in that
\* order and testOldest the slots ptr, ..., size-1, 0, ..., ptr-1; a scan
\* that finds no match compares every slot exactly once, a scan that finds
\* one stops at the first matching slot of its order.
ScanOrder ==
    \A md \in Modes, key \in Slices :
       /\ ScansInOrder(buffers[md], key,
                       testRecentScan(buffers[md], mem, key),
                       RecentOrder(buffers[md]))
       /\ ScansInOrder(buffers[md], key,
                       testOldestScan(buffers[md], mem, key),
                       OldestOrder(buffers[md]))

\* a Test that missed with the pointer in the middle of two slots: the two
\* scans compared both slots, in opposite orders
ScanOrderWitness ==
    /\ Size = 2
    /\ bufferRecent.ptr = 1
    /\ ret.op = "Test"
    /\ ret.val = FALSE
    /\ testRecentScan(bufferRecent, mem, ret.key).seen = << 0, 1 >>
    /\ testOldestScan(bufferOldest, mem, ret.key).seen = << 1, 0 >>

\* C20 - GetRecent returns nil exactly when the slot before the pointer
\* (the last slot when the pointer is 0) is nil, whatever the pointer; a
\* slot that is not nil is returned as a non-nil slice with its bytes.
MostRecentNilConsistent ==
    ret.op = "GetRecent" =>
       LET b    == buffers[ret.mode]
           slot == b.data[(b.ptr + b.size - 1) % b.size]
       IN  /\ ret.val = NilSlice <=> slot = NilSlice
           /\ slot # NilSlice => mem[ret.val] = Bytes(mem, slot)

\* ====================================================================
\* Properties of the calls with a caller that writes (SpecAlias)
\* ====================================================================
\* what every slot holds: nil or not, and its bytes
SlotContents ==
    [md \in Modes |->
       [i \in DOMAIN buffers[md].data |->
          [isNil |-> buffers[md].data[i] = NilSlice,
           bytes |-> Bytes(mem, buffers[md].data[i])]]]

\* C12 - copy-out on read: a slice returned by GetRecent or GetOldest is the
\* slice of no slot; a write of the caller into the returned array changes
\* the content of no slot; and an Add or Reset that follows the Get leaves
\* the returned bytes as they were.
CopyOutOnRead ==
    [][/\ (ret'.op \in Gets /\ ret'.val # NilSlice) =>
             \A md \in Modes :
                \A i \in DOMAIN buffers'[md].data :
                   buffers'[md].data[i] # ret'.val
       /\ (ret'.op = "Write" /\ ret'.got) => SlotContents' = SlotContents
       /\ (ret.op \in Gets /\ ret'.op \in {"Add", "Reset"}) =>
             Bytes(mem', ret.val) = Bytes(mem, ret.val)]_vars

\* the caller has written into the array GetRecent returned and the slot
\* still holds the record
CopyOutOnReadWitness ==
    /\ ret.op = "Write"
    /\ ret.got
    /\ ret.addr = RetAddr
    /\ mem[RetAddr] # ret.old
    /\ hist # << >>
    /\ Bytes(mem, bufferRecent.data[(Len(hist) - 1) % Size]) = ret.old

\* C13 - slot contents change only through Add and Reset: each of the last
\* Size records inserted since the last Reset is still, byte for byte as it
\* was passed, in the slot it was written to, whatever the caller has done
\* since with the array it passed.
SlotsKeepWhatWasPassed ==
    \A md \in Modes, j \in 1..Len(hist) :
       j > Len(hist) - Size =>
          Bytes(mem, buffers[md].data[(j - 1) % Size]) = hist[j].bytes

\* ====================================================================
\* Properties of the goroutines (SpecConc)
\* ====================================================================
\* between Lock and Unlock
WriteSection == {"add_store", "add_inc", "add_wrap", "reset_data",
                 "reset_ptr", "unlock"}

\* between RLock and RUnlock
ReadSection == {"tr_init", "tr_loop1", "tr_loop2", "to_init", "to_loop1",
                "to_loop2", "gr_read", "go_init", "go_loop1", "go_loop2",
                "runlock"}

Writing == {t \in Threads : At(t, WriteSection)}

Reading == {t \in Threads : At(t, ReadSection)}

\* C9 - reader/writer exclusion: at most one goroutine is between Lock and
\* Unlock of Add or Reset, and while one is, none is between RLock and
\* RUnlock of Test, GetRecent or GetOldest.
RWExclusion ==
    /\ Cardinality(Writing) <= 1
    /\ Writing # {} => Reading = {}

\* a writer is inside and a reader is held at RLock
RWExclusionWitness ==
    /\ Writing # {}
    /\ \E t \in Threads : At(t, {"rlock"})
    /\ B.mutex.w

\* several readers are inside at the same time
ReadersTogether == Cardinality(Reading) >= 2

\* C10 - consistent reads: whenever no writer is inside, slots and pointer
\* are those left by the writes that have unlocked, made one after the
\* other in the order of their unlocks; a reader inside sees that buffer,
\* and what it returns is what the call returns on the buffer as it was
\* when the reader took the lock.
ConsistentReads ==
    /\ Writing = {} => B.data = Abs.data /\ B.ptr = Abs.ptr
    /\ \A t \in Reading : B.data = Abs.data /\ B.ptr = Abs.ptr
    /\ \A t \in Threads :
          (At(t, {"runlock", "ret"}) /\ thr[t].op \notin Writes)
          => thr[t].res = thr[t].want

\* a Test has found its key and, before it returns, a Reset has emptied
\* the buffer
ConsistentReadsWitness ==
    \E t \in Threads :
       /\ At(t, {"ret"})
       /\ thr[t].op = "Test"
       /\ thr[t].res.val = TRUE
       /\ ~Test(B, mem, thr[t].arg)
       /\ \E u \in Threads : At(u, {"ret"}) /\ thr[u].op = "Reset"

\* a goroutine is inside a call
InCall(t) == ~At(t, {"idle", "done"})

\* C11 - every call completes: what the mutex records is exactly the
\* goroutines between their lock and unlock statements, so a goroutine that
\* has left its call by any return path holds nothing; and, when every
\* goroutine that can run does run, every call that has started returns,
\* whether it had to wait for the lock or not: from some point on no
\* goroutine is inside a call (a goroutine makes one call and done is its
\* last state, so one call that never returned would keep InCall true).
EveryCallReturns ==
    /\ [](/\ B.mutex.r = Cardinality(Reading)
          /\ B.mutex.w = (\E t \in Threads :
                             At(t, {"lockwait"} \cup WriteSection)))
    /\ <>[](\A t \in Threads : ~InCall(t))

\* every goroutine has returned, a write among them, and the lock is free
EveryCallReturnsWitness ==
    /\ \A t \in Threads : At(t, {"done"})
    /\ B.mutex = RWMutex
    /\ hist # << >>
    /\ B.ptr # 0

\* the slot indices
Indices == 0..(B.size - 1)

\* C14 - pointer invariant: the buffer has exactly size slots; whenever no
\* writer is between Lock and Unlock the pointer is a slot index, namely
\* the number of Add calls since the last Reset modulo size; and every
\* index a statement is about to use on the slots is a slot index (inside
\* Add, after b.ptr++ and before the wrap, the pointer equals size: no
\* statement indexes with it there and no other goroutine is inside).
PointerInRange ==
    /\ DOMAIN B.data = Indices
    /\ Writing = {} => B.ptr \in Indices /\ B.ptr = Len(hist) % B.size
    /\ \A t \in Threads :
          /\ At(t, {"add_store", "gr_read"}) => B.ptr \in Indices
          /\ (At(t, {"tr_loop1"}) /\ thr[t].i >= 0) => thr[t].i \in Indices
          /\ (At(t, {"tr_loop2"}) /\ thr[t].i >= B.ptr) => thr[t].i \in Indices
          /\ (At(t, {"to_loop1", "go_loop1"}) /\ thr[t].i < B.size)
                => thr[t].i \in Indices
          /\ (At(t, {"to_loop2", "go_loop2"}) /\ thr[t].i < B.ptr)
                => thr[t].i \in Indices

\* an Add has wrapped the pointer to 0 and returned while another goroutine
\* is in a scan
PointerInRangeWitness ==
    /\ B.ptr = 0
    /\ hist # << >>
    /\ \E t \in Threads : At(t, {"ret"}) /\ thr[t].op = "Add"
    /\ \E t \in Threads : At(t, {"tr_loop2", "to_loop1", "go_loop1"})

\* the goroutines that have returned from Add
Adders == {t \in Threads : At(t, {"ret"}) /\ thr[t].op = "Add"}

\* C19 - no lost insert: when k goroutines have each made one Add of a
\* record unlike the others' on a new buffer of k or more slots, and no
\* other call was made, then once all k have returned the k records are in
\* the slots 0..k-1, one in each, the pointer is k mod size, and Test is
\* true for each of them.
NoLostInsert ==
    LET k == Cardinality(Adders)
    IN  (/\ \A t \in Threads : t \in Adders \/ At(t, {"idle"})
         /\ k > 0
         /\ Len(hist) = k
         /\ k <= B.size
         /\ \A t, u \in Adders :
               t # u => ~BytesEqual(mem[thr[t].arg], mem[thr[u].arg]))
        => /\ B.ptr = k % B.size
           /\ \A t \in Adders : \E i \in 0..(k - 1) : B.data[i] = thr[t].arg
           /\ \A i \in 0..(k - 1) : \E t \in Adders : B.data[i] = thr[t].arg
           /\ \A t \in Adders : Test(B, mem, thr[t].arg)

\* every goroutine has added its own record to a new buffer, and the one
\* started last got the lock first
NoLostInsertWitness ==
    /\ Adders = Threads
    /\ Len(hist) = NumThreads
    /\ B.size >= NumThreads
    /\ \A t, u \in Threads :
          t # u => ~BytesEqual(mem[thr[t].arg], mem[thr[u].arg])
    /\ B.data[0] = thr[NumThreads].arg

====
